---- MODULE Spec2Model ----
(***************************************************************************)
(* State-machine model of SkiaRendererImpl (src/src/SkiaRenderer.ts): the  *)
(* raster painter (render / renderContainer / renderGraphics /             *)
(* renderSprite / loadImage), the document exporter (exportToPDF /         *)
(* addSpriteToPDF) and dispose(), with JavaScript's run-to-completion      *)
(* scheduling: a step of the model is one synchronous run of code between  *)
(* two suspension points (an await, a promise callback, an image event).   *)
(***************************************************************************)
EXTENDS Integers, Sequences, FiniteSets, TLC

(***************************************************************************)
(* Bounds of the model; MaxCalls bounds the calls made on the renderer    *)
(* (render, exportToPDF, dispose) taken together.                          *)
(***************************************************************************)
MaxRenders == 2
MaxExports == 1
MaxDispose == 2
MaxCalls == 3

(***************************************************************************)
(* Scene graph: PIXI display objects as the renderer reads them.           *)
(*   kind     "graphics" | "sprite" | "container"   (instanceof tests)     *)
(*   angle    graphics.angle / sprite.angle, degrees                       *)
(*   data     graphics.geometry.graphicsData: shape, number of points      *)
(*            (points.length / 2), fillStyle.visible, lineStyle.visible    *)
(*   url      sprite.texture.baseTexture.resource.url ("" when absent)     *)
(***************************************************************************)
NoUrl == ""

Urls == {"u1", "u2"}

GData(shape, npts, fill, stroke) ==
    [shape |-> shape, npts |-> npts, fill |-> fill, stroke |-> stroke]

Graphics(id, angle, data) ==
    [kind |-> "graphics", id |-> id, angle |-> angle, data |-> data,
     url |-> NoUrl, children |-> <<>>]

Sprite(id, angle, url) ==
    [kind |-> "sprite", id |-> id, angle |-> angle, data |-> <<>>,
     url |-> url, children |-> <<>>]

Container(id, children) ==
    [kind |-> "container", id |-> id, angle |-> 0, data |-> <<>>,
     url |-> NoUrl, children |-> children]

\* The roots handed to render().  SceneMixed: a filled rectangle, a sprite
\* and, after it, a nested Container (as createContainer2 of main.ts builds
\* one) holding a filled circle.  SceneDeep: a Graphics with a stroked entry
\* of a single point and a stroked polyline of three points, a nested
\* Container holding a rotated rectangle and a sprite, and a sprite whose
\* texture has no URL.
SceneMixed ==
    Container("rootA",
      << Graphics("r1", 0, << GData("rect", 4, TRUE, FALSE) >>),
         Sprite("s1", 0, "u1"),
         Container("k1",
           << Graphics("c1", 0, << GData("circle", 0, TRUE, FALSE) >>) >>) >>)

SceneDeep ==
    Container("rootB",
      << Graphics("l1", 0, << GData("poly", 1, FALSE, TRUE),
                              GData("poly", 3, FALSE, TRUE) >>),
         Container("k2",
           << Graphics("r2", 90, << GData("rect", 4, TRUE, FALSE) >>),
              Sprite("s2", 45, "u2") >>),
         Sprite("s0", 0, NoUrl) >>)

SceneIds == {"A", "B"}

\* A graphicsData entry and a Graphics with their geometry: the shape's
\* local x, y, width, height or radius, the points (as pairs) of
\* data.points, and the node's position and scale.
GeomData(shape, fill, stroke, x, y, width, height, radius, points) ==
    [shape |-> shape, npts |-> Len(points), fill |-> fill, stroke |-> stroke,
     x |-> x, y |-> y, width |-> width, height |-> height, radius |-> radius,
     points |-> points]

GeomGraphics(id, angle, px, py, sx, sy, data) ==
    [kind |-> "graphics", id |-> id, angle |-> angle, data |-> data,
     url |-> NoUrl, children |-> <<>>, px |-> px, py |-> py, sx |-> sx, sy |-> sy]

\* Roots for the pointer handlers.  h1: a filled rectangle over
\* [4,8] x [4,8]; h2: a filled circle of radius 2 about (8,6), which
\* overlaps h1; h3: a rectangle over [12,14] x [4,6] with neither fill nor
\* stroke; hs: a sprite without a URL; hk: a nested Container whose filled
\* rectangle hn lies over [0,2] x [4,6].  SceneHit lists them as a stage
\* built up shape by shape would; SceneHitRev has the three Graphics in the
\* opposite order.
HitRect == GeomGraphics("h1", 0, 4, 4, 1, 1,
               << GeomData("rect", TRUE, FALSE, 0, 0, 4, 4, 0, <<>>) >>)

HitCircle == GeomGraphics("h2", 0, 8, 6, 1, 1,
                 << GeomData("circle", TRUE, FALSE, 0, 0, 0, 0, 2, <<>>) >>)

HitBlank == GeomGraphics("h3", 0, 12, 4, 1, 1,
                << GeomData("rect", FALSE, FALSE, 0, 0, 2, 2, 0, <<>>) >>)

SceneHit ==
    Container("rootH",
      << HitRect, HitCircle, Sprite("hs", 0, NoUrl), HitBlank,
         Container("hk",
           << GeomGraphics("hn", 0, 0, 4, 1, 1,
                << GeomData("rect", TRUE, FALSE, 0, 0, 2, 2, 0, <<>>) >>) >>) >>)

SceneHitRev == Container("rootI", << HitBlank, HitCircle, HitRect >>)

HitSceneIds == {"H", "I"}

Scene(sc) ==
    CASE sc = "A" -> SceneMixed
      [] sc = "B" -> SceneDeep
      [] sc = "H" -> SceneHit
      [] OTHER -> SceneHitRev

(***************************************************************************)
(* renderContainer's traversal order.  Items(children) lists, in the order *)
(* the for-loop of renderContainer meets them, the Graphics and Sprite     *)
(* nodes of a subtree; the item "end" stands after a nested Container's    *)
(* items: the nested call has returned and the outer await resumes later.  *)
(***************************************************************************)
Item(t, node) == [t |-> t, node |-> node]

\* The items of a loop that takes the children from the last to the first.
RECURSIVE ItemsLastFirst(_)
ItemsLastFirst(children) ==
    IF children = <<>> THEN <<>>
    ELSE LET child == children[Len(children)]
             here  == CASE child.kind = "graphics" -> << Item("graphics", child) >>
                        [] child.kind = "sprite" -> << Item("sprite", child) >>
                        [] OTHER -> ItemsLastFirst(child.children)
                                    \o << Item("end", child) >>
         IN  here \o ItemsLastFirst(SubSeq(children, 1, Len(children) - 1))

RECURSIVE Items(_)
Items(children) ==
    IF children = <<>> THEN <<>>
    ELSE LET child == Head(children)
             here  == CASE child.kind = "graphics" -> << Item("graphics", child) >>
                        [] child.kind = "sprite" -> << Item("sprite", child) >>
                        [] OTHER -> Items(child.children) \o << Item("end", child) >>
         IN  here \o Items(Tail(children))

(***************************************************************************)
(* Canvas calls, as records: save, rotate, restore and the two draw calls. *)
(***************************************************************************)
Op(op, node, arg) == [op |-> op, node |-> node, arg |-> arg]

IsDraw(o) == o.op \in {"drawPath", "drawImageRect"}

\* What one synchronous piece of painting did: the canvas calls it issued,
\* the Paths and Paints it created and did not delete, and whether it threw.
Effect(ops, paths, paints, threw) ==
    [ops |-> ops, paths |-> paths, paints |-> paints, threw |-> threw]

\* The stroke branch of renderGraphics for one graphicsData entry.  thr says
\* that a call on a native object released by dispose() throws.
renderStroke(g, d, thr) ==
    IF ~d.stroke THEN Effect(<<>>, 0, 0, FALSE)
    ELSE IF d.npts >= 2
         THEN IF thr THEN Effect(<<>>, 1, 0, TRUE)
              ELSE Effect((IF g.angle # 0
                           THEN << Op("save", g.id, ""), Op("rotate", g.id, "") >>
                           ELSE <<>>)
                          \o << Op("drawPath", g.id, "stroke"),
                                Op("restore", g.id, "") >>,
                          0, 0, FALSE)
         ELSE Effect(<<>>, 1, 0, FALSE)

\* The Rectangle / Circle branch of renderGraphics for one entry.
renderShape(g, d, thr) ==
    IF d.shape = "rect"
    THEN IF g.angle # 0
         THEN IF thr THEN Effect(<<>>, 0, 0, TRUE)
              ELSE Effect(<< Op("save", g.id, ""), Op("rotate", g.id, "") >>
                          \o (IF d.fill THEN << Op("drawPath", g.id, "fill") >>
                                        ELSE <<>>)
                          \o << Op("restore", g.id, "") >>,
                          0, 0, FALSE)
         ELSE IF d.fill
              THEN IF thr THEN Effect(<<>>, 1, 0, TRUE)
                   ELSE Effect(<< Op("drawPath", g.id, "fill") >>, 0, 0, FALSE)
              ELSE Effect(<<>>, 0, 0, FALSE)
    ELSE IF d.shape = "circle"
    THEN IF g.angle # 0
         THEN IF thr THEN Effect(<<>>, 1, 0, TRUE)
              ELSE Effect(<< Op("save", g.id, ""), Op("rotate", g.id, "") >>
                          \o (IF d.fill THEN << Op("drawPath", g.id, "fill") >>
                                        ELSE <<>>)
                          \o << Op("restore", g.id, "") >>,
                          0, 0, FALSE)
         ELSE IF d.fill
              THEN IF thr THEN Effect(<<>>, 1, 0, TRUE)
                   ELSE Effect(<< Op("drawPath", g.id, "fill") >>, 0, 0, FALSE)
              ELSE Effect(<<>>, 0, 0, FALSE)
    ELSE Effect(<<>>, 0, 0, FALSE)

\* One iteration of graphicsData.forEach: the stroke branch, then the shape
\* branch unless the stroke branch threw.
renderData(g, d, thr) ==
    LET s == renderStroke(g, d, thr)
    IN  IF s.threw THEN s
        ELSE LET f == renderShape(g, d, thr)
             IN  Effect(s.ops \o f.ops, s.paths + f.paths, 0, f.threw)

\* graphicsData.forEach: the entries run in order up to the first that
\* throws.  ThrowAt is the index of that entry, or the one past the last.
RECURSIVE ThrowAt(_, _, _)
ThrowAt(g, i, thr) ==
    IF i > Len(g.data) \/ renderData(g, g.data[i], thr).threw THEN i
    ELSE ThrowAt(g, i + 1, thr)

RECURSIVE DataOps(_, _, _, _)
DataOps(g, i, last, thr) ==
    IF i > last THEN <<>>
    ELSE renderData(g, g.data[i], thr).ops \o DataOps(g, i + 1, last, thr)

RECURSIVE DataPaths(_, _, _, _)
DataPaths(g, i, last, thr) ==
    IF i > last THEN 0
    ELSE renderData(g, g.data[i], thr).paths + DataPaths(g, i + 1, last, thr)

renderGraphics(g, thr) ==
    LET stop == ThrowAt(g, 1, thr)
        last == IF stop > Len(g.data) THEN Len(g.data) ELSE stop
    IN  Effect(DataOps(g, 1, last, thr), DataPaths(g, 1, last, thr), 0,
               stop <= Len(g.data))

\* renderSprite from skCanvas.save() to skCanvas.restore(): the image is at
\* hand.  A throw is caught by renderSprite's own catch, so the effect never
\* reports one; the Paint made for the sprite is never deleted.
drawSprite(sprite, thr) ==
    IF thr THEN Effect(<<>>, 0, 0, FALSE)
    ELSE Effect(<< Op("save", sprite.id, "") >>
                \o (IF sprite.angle # 0 THEN << Op("rotate", sprite.id, "") >>
                                        ELSE <<>>)
                \o << Op("drawImageRect", sprite.id, ""),
                      Op("restore", sprite.id, "") >>,
                0, 1, FALSE)

\* The nodes a sequence of canvas calls drew, in order.
RECURSIVE DrawnOf(_)
DrawnOf(ops) ==
    IF ops = <<>> THEN <<>>
    ELSE (IF IsDraw(Head(ops)) THEN << Head(ops).node >> ELSE <<>>)
         \o DrawnOf(Tail(ops))

(***************************************************************************)
(* One synchronous run of renderContainer, from the item at pos to its     *)
(* next suspension.  Graphics are painted one after another; a Sprite is   *)
(* handed to renderSprite and the loop then waits for it (await), whether  *)
(* it returned at once (no URL), drew from the cache or started a load;    *)
(* the end of a nested Container resumes the caller's await.  status:      *)
(*   "ready"     an await is resolved, the continuation is queued          *)
(*   "awaiting"  renderSprite waits for loadImage(start)                   *)
(*   "resolved"  the loop is over, the promise of renderContainer resolves *)
(*   "aborted"   renderGraphics threw, the promise rejects                 *)
(***************************************************************************)
Run(pos, status, e, drawn, failed, start) ==
    [pos |-> pos, status |-> status, ops |-> e.ops, paths |-> e.paths,
     paints |-> e.paints, drawn |-> drawn, failed |-> failed, start |-> start]

NoEffect == Effect(<<>>, 0, 0, FALSE)

\* renderSprite up to its first suspension, for the sprite at items[pos];
\* cached are the URLs the image cache holds an image for.
renderSpriteEntry(sprite, pos, thr, cached) ==
    IF sprite.url = NoUrl
    THEN Run(pos + 1, "ready", NoEffect, <<>>, {}, NoUrl)
    ELSE IF sprite.url \in cached
    THEN LET e == drawSprite(sprite, thr)
         IN  Run(pos + 1, "ready", e, DrawnOf(e.ops),
                 IF thr THEN {sprite.id} ELSE {}, NoUrl)
    ELSE Run(pos, "awaiting", NoEffect, <<>>, {}, sprite.url)

\* The Graphics painted in a row from pos: StopAt is the first item from
\* pos on that is not a Graphics, or is a Graphics whose painting throws.
RECURSIVE StopAt(_, _, _)
StopAt(items, pos, thr) ==
    IF pos > Len(items) THEN pos
    ELSE IF items[pos].t = "graphics" /\ ~renderGraphics(items[pos].node, thr).threw
         THEN StopAt(items, pos + 1, thr)
         ELSE pos

RECURSIVE GraphicsOps(_, _, _, _)
GraphicsOps(items, i, last, thr) ==
    IF i > last THEN <<>>
    ELSE renderGraphics(items[i].node, thr).ops \o GraphicsOps(items, i + 1, last, thr)

RECURSIVE GraphicsPaths(_, _, _, _)
GraphicsPaths(items, i, last, thr) ==
    IF i > last THEN 0
    ELSE renderGraphics(items[i].node, thr).paths
         + GraphicsPaths(items, i + 1, last, thr)

\* What happens at the item the row of Graphics stops at.
StopRun(items, stop, thr, cached) ==
    IF stop > Len(items)
    THEN Run(stop, "resolved", NoEffect, <<>>, {}, NoUrl)
    ELSE CASE items[stop].t = "graphics" ->
                LET e == renderGraphics(items[stop].node, thr)
                IN  Run(stop, "aborted", e, DrawnOf(e.ops), {}, NoUrl)
           [] items[stop].t = "sprite" ->
                renderSpriteEntry(items[stop].node, stop, thr, cached)
           [] OTHER -> Run(stop + 1, "ready", NoEffect, <<>>, {}, NoUrl)

RunSync(items, pos, thr, cached) ==
    LET stop == StopAt(items, pos, thr)
        ops  == GraphicsOps(items, pos, stop - 1, thr)
        tail == StopRun(items, stop, thr, cached)
    IN  Run(tail.pos, tail.status,
            Effect(ops \o tail.ops,
                   GraphicsPaths(items, pos, stop - 1, thr) + tail.paths,
                   tail.paints, FALSE),
            DrawnOf(ops) \o tail.drawn, tail.failed, tail.start)

(***************************************************************************)
(* The document exporter's emission for one Graphics child: a line for a   *)
(* stroked entry with at least two points, a filled rectangle or circle.   *)
(***************************************************************************)
Prim(prim, node) == [prim |-> prim, node |-> node]

exportData(g, d) ==
    (IF d.stroke /\ d.npts >= 2 THEN << Prim("line", g.id) >> ELSE <<>>)
    \o (IF d.shape = "rect" /\ d.fill THEN << Prim("rect", g.id) >>
        ELSE IF d.shape = "circle" /\ d.fill THEN << Prim("circle", g.id) >>
        ELSE <<>>)

RECURSIVE exportGraphicsFrom(_, _)
exportGraphicsFrom(g, i) ==
    IF i > Len(g.data) THEN <<>>
    ELSE exportData(g, g.data[i]) \o exportGraphicsFrom(g, i + 1)

exportGraphics(g) == exportGraphicsFrom(g, 1)

\* One synchronous run of processContainer over the root's children, from
\* child i to its next suspension: "fetching" (addSpriteToPDF awaits fetch),
\* "inRender" (a nested Container was handed to renderContainer), "ready"
\* (addSpriteToPDF returned at once) or "returned" (doc.output).
ExpRun(pos, status, doc) == [pos |-> pos, status |-> status, doc |-> doc]

RECURSIVE processContainer(_, _, _)
processContainer(children, i, doc) ==
    IF i > Len(children) THEN ExpRun(i, "returned", doc)
    ELSE LET child == children[i]
         IN  CASE child.kind = "graphics" ->
                    processContainer(children, i + 1, doc \o exportGraphics(child))
               [] child.kind = "sprite" ->
                    IF child.url = NoUrl THEN ExpRun(i + 1, "ready", doc)
                    ELSE ExpRun(i, "fetching", doc)
               [] OTHER -> ExpRun(i, "inRender", doc)

(***************************************************************************)
(* Geometry.  A Graphics with its own position, scale and angle, a direct  *)
(* child of an untransformed root, and graphicsData entries with their     *)
(* local geometry: a Rectangle (x, y, width, height), a Circle (x, y,      *)
(* radius) or a polyline (points, as pairs).  Angles are right angles, so  *)
(* that sines and cosines are integers; the sizes used are even, so that   *)
(* the halves the code takes are integers too.                             *)
(***************************************************************************)
Abs(n) == IF n < 0 THEN 0 - n ELSE n

Cos(angle) == CASE angle = 0 -> 1 [] angle = 180 -> 0 - 1 [] OTHER -> 0

Sin(angle) == CASE angle = 90 -> 1 [] angle = 270 -> 0 - 1 [] OTHER -> 0

SetMin(S) == CHOOSE m \in S : \A n \in S : m <= n

SetMax(S) == CHOOSE m \in S : \A n \in S : m >= n

\* graphics.transform.worldTransform, as PIXI composes it for a child of an
\* untransformed root: a and d carry the cosine of the node's angle.
worldTransform(g) ==
    [a |-> g.sx * Cos(g.angle), b |-> g.sx * Sin(g.angle),
     c |-> 0 - g.sy * Sin(g.angle), d |-> g.sy * Cos(g.angle),
     tx |-> g.px, ty |-> g.py]

\* The corners of the local bounds of one graphicsData entry.
LocalCorners(d) ==
    CASE d.shape = "rect" ->
           {<<d.x, d.y>>, <<d.x + d.width, d.y>>, <<d.x, d.y + d.height>>,
            <<d.x + d.width, d.y + d.height>>}
      [] d.shape = "circle" ->
           {<<d.x - d.radius, d.y - d.radius>>, <<d.x + d.radius, d.y - d.radius>>,
            <<d.x - d.radius, d.y + d.radius>>, <<d.x + d.radius, d.y + d.radius>>}
      [] OTHER -> {d.points[i] : i \in DOMAIN d.points}

\* The entries of a Graphics that PIXI builds geometry for: those with a
\* visible fill or a visible stroke.
VisibleData(g) == {i \in DOMAIN g.data : g.data[i].fill \/ g.data[i].stroke}

\* The axis-aligned box, in world coordinates, around the entries idx of a
\* Graphics; the empty rectangle when there are none.
BoundsOver(g, idx) ==
    LET t   == worldTransform(g)
        loc == UNION {LocalCorners(g.data[i]) : i \in idx}
        xs  == {t.tx + t.a * q[1] + t.c * q[2] : q \in loc}
        ys  == {t.ty + t.b * q[1] + t.d * q[2] : q \in loc}
    IN  IF loc = {} THEN [x |-> 0, y |-> 0, width |-> 0, height |-> 0]
        ELSE [x |-> SetMin(xs), y |-> SetMin(ys),
              width |-> SetMax(xs) - SetMin(xs),
              height |-> SetMax(ys) - SetMin(ys)]

\* Bounds taken over every entry, drawn or not.
getBoundsOfEveryEntry(g) == BoundsOver(g, DOMAIN g.data)

\* graphics.getBounds(): the box around the vertices of the geometry PIXI
\* has built for the node, so an entry with neither fill nor stroke adds
\* nothing to it (the widening by half the stroke width is left out).
getBounds(g) == BoundsOver(g, VisibleData(g))

\* bounds.contains(x, y) of PIXI.Rectangle.
contains(bounds, x, y) ==
    /\ bounds.width > 0
    /\ bounds.height > 0
    /\ x >= bounds.x /\ x < bounds.x + bounds.width
    /\ y >= bounds.y /\ y < bounds.y + bounds.height

\* A point turned by angle about (cx, cy), as the exporter and the hit
\* tester write the rotation out.
rotated(x, y, cx, cy, angle) ==
    [x |-> cx + (x - cx) * Cos(angle) - (y - cy) * Sin(angle),
     y |-> cy + (x - cx) * Sin(angle) + (y - cy) * Cos(angle)]

\* The centre of a box.
centerOf(bounds) ==
    [x |-> bounds.x + bounds.width \div 2, y |-> bounds.y + bounds.height \div 2]

\* What reaches the canvas or the document for one primitive.  rot is the
\* rotation the painter sets on the canvas around the draw call (angle in
\* degrees of the node, centre), or NoRot.
NoRot == [angle |-> 0, cx |-> 0, cy |-> 0]

Drawing(prim, node, x, y, width, height, radius, points, rot) ==
    [prim |-> prim, node |-> node, x |-> x, y |-> y, width |-> width,
     height |-> height, radius |-> radius, points |-> points, rot |-> rot]

\* The painter's geometry for one graphicsData entry: the stroke branch
\* (the path through the translated points), then the Rectangle or Circle
\* branch (a filled path).
paintData(g, d) ==
    LET t == worldTransform(g)
        line ==
            IF d.stroke /\ d.npts >= 2
            THEN LET c == centerOf(getBounds(g))
                 IN  << Drawing("polyline", g.id, 0, 0, 0, 0, 0,
                                [i \in DOMAIN d.points |->
                                    << t.tx + d.points[i][1], t.ty + d.points[i][2] >>],
                                IF g.angle # 0
                                THEN [angle |-> g.angle, cx |-> c.x, cy |-> c.y]
                                ELSE NoRot) >>
            ELSE <<>>
        fig ==
            IF d.shape = "rect" /\ d.fill
            THEN LET x == t.tx + d.x
                     y == t.ty + d.y
                     width  == d.width * t.a
                     height == d.height * t.d
                 IN  << Drawing("rect", g.id, x, y, width, height, 0, <<>>,
                                IF g.angle # 0
                                THEN [angle |-> g.angle, cx |-> x + width \div 2,
                                      cy |-> y + height \div 2]
                                ELSE NoRot) >>
            ELSE IF d.shape = "circle" /\ d.fill
            THEN LET x == t.tx + d.x
                     y == t.ty + d.y
                 IN  << Drawing("circle", g.id, x, y, 0, 0, d.radius * Abs(t.a), <<>>,
                                IF g.angle # 0
                                THEN [angle |-> g.angle, cx |-> x, cy |-> y]
                                ELSE NoRot) >>
            ELSE <<>>
    IN  line \o fig

\* The exporter's geometry for one graphicsData entry: doc.line for the
\* first two points of a stroked entry, doc.rect or doc.circle for a filled
\* shape; for a node with an angle the reference point is turned.
docData(g, d) ==
    LET t == worldTransform(g)
        line ==
            IF d.stroke /\ d.npts >= 2
            THEN LET startX == t.tx + d.points[1][1]
                     startY == t.ty + d.points[1][2]
                     endX   == t.tx + d.points[2][1]
                     endY   == t.ty + d.points[2][2]
                     cx == (startX + endX) \div 2
                     cy == (startY + endY) \div 2
                     sp == IF g.angle # 0 THEN rotated(startX, startY, cx, cy, g.angle)
                           ELSE [x |-> startX, y |-> startY]
                     ep == IF g.angle # 0 THEN rotated(endX, endY, cx, cy, g.angle)
                           ELSE [x |-> endX, y |-> endY]
                 IN  << Drawing("polyline", g.id, 0, 0, 0, 0, 0,
                                << << sp.x, sp.y >>, << ep.x, ep.y >> >>, NoRot) >>
            ELSE <<>>
        c == centerOf(getBounds(g))
        fig ==
            IF d.shape = "rect" /\ d.fill
            THEN LET x == t.tx + d.x
                     y == t.ty + d.y
                     q == IF g.angle # 0 THEN rotated(x, y, c.x, c.y, g.angle)
                          ELSE [x |-> x, y |-> y]
                 IN  << Drawing("rect", g.id, q.x, q.y, d.width * t.a,
                                d.height * t.d, 0, <<>>, NoRot) >>
            ELSE IF d.shape = "circle" /\ d.fill
            THEN LET x == t.tx + d.x
                     y == t.ty + d.y
                     q == IF g.angle # 0 THEN rotated(x, y, c.x, c.y, g.angle)
                          ELSE [x |-> x, y |-> y]
                 IN  << Drawing("circle", g.id, q.x, q.y, 0, 0,
                                d.radius * Abs(t.a), <<>>, NoRot) >>
            ELSE <<>>
    IN  line \o fig

\* graphicsData.forEach of the painter and of the exporter.
RECURSIVE paintGeometryFrom(_, _)
paintGeometryFrom(g, i) ==
    IF i > Len(g.data) THEN <<>>
    ELSE paintData(g, g.data[i]) \o paintGeometryFrom(g, i + 1)

paintGeometry(g) == paintGeometryFrom(g, 1)

RECURSIVE docGeometryFrom(_, _)
docGeometryFrom(g, i) ==
    IF i > Len(g.data) THEN <<>>
    ELSE docData(g, g.data[i]) \o docGeometryFrom(g, i + 1)

docGeometry(g) == docGeometryFrom(g, 1)

\* hitTest(point, graphics) of setupPointerEvents: the bounds reject, the
\* point turned back by the node's angle, then the test of each entry with
\* the node's own position and scale.
hitData(g, d, pt) ==
    CASE d.shape = "rect" ->
           LET x == g.px + d.x
               y == g.py + d.y
           IN  /\ pt.x >= x /\ pt.x <= x + d.width * g.sx
               /\ pt.y >= y /\ pt.y <= y + d.height * g.sy
      [] d.shape = "circle" ->
           LET dx == pt.x - (g.px + d.x)
               dy == pt.y - (g.py + d.y)
           IN  /\ d.radius * g.sx >= 0
               /\ dx * dx + dy * dy <= (d.radius * g.sx) * (d.radius * g.sx)
      [] OTHER -> d.npts >= 2

hitTest(point, g) ==
    LET bounds == getBounds(g)
    IN  IF ~contains(bounds, point.x, point.y) THEN FALSE
        ELSE LET c  == centerOf(bounds)
                 pt == IF g.angle # 0
                       THEN rotated(point.x, point.y, c.x, c.y, 360 - g.angle)
                       ELSE point
             IN  \E i \in DOMAIN g.data : hitData(g, g.data[i], pt)

(***************************************************************************)
(* State of one SkiaRendererImpl and of its asynchronous work.             *)
(***************************************************************************)
VARIABLES
    container,   \* this.container: the root of the last render(), or "none"
    imageCache,  \* this.imageCache: url -> 0 (no entry) or the image decoded
                 \* by the load of that number
    log,         \* canvas calls on the surface since its last clear
    walks,       \* renderContainer invocations on a root or on a subtree
    loads,       \* the Image elements created by loadImage
    exp,         \* the exportToPDF call, if one was made
    pathsOpen,   \* Paths created and not deleted
    paintsOpen,  \* Paints created by renderSprite and not deleted
    paintRel,    \* number of delete() calls on this.paint
    surfRel,     \* number of delete() calls on this.surface
    flushCount,  \* number of surface.flush() calls
    nRenders,    \* number of render() calls
    nExports,    \* number of exportToPDF() calls
    nDispose,    \* number of dispose() calls
    lastEvent,   \* what the last pointerdown / pointerup handler did
    geom         \* one Graphics and what each consumer computed for it

vars == << container, imageCache, log, walks, loads, exp, pathsOpen,
           paintsOpen, paintRel, surfRel, flushCount, nRenders, nExports,
           nDispose, lastEvent, geom >>

disposed == nDispose > 0

\* The calls made on the renderer so far: render, exportToPDF, dispose.
nCalls == nRenders + nExports + nDispose

\* A call on a native object that dispose() released either throws or goes
\* through; before dispose() no call throws.
ThrowChoices == IF disposed THEN BOOLEAN ELSE {FALSE}

Walk(kind, scene, sub) ==
    [kind |-> kind, scene |-> scene, sub |-> sub, pos |-> 1,
     status |-> "ready", load |-> 0, drawn |-> <<>>, failed |-> {}]

\* The children a walk iterates: those of its root, or of the nested
\* Container (a direct child of the root) it was called on.
SubtreeOf(scene, sub) ==
    IF sub = "" THEN Scene(scene)
    ELSE LET ch == Scene(scene).children
         IN  ch[CHOOSE i \in DOMAIN ch : ch[i].id = sub]

NestedIds(scene) ==
    {Scene(scene).children[i].id :
        i \in {j \in DOMAIN Scene(scene).children :
                  Scene(scene).children[j].kind = "container"}}

\* The items of every subtree a walk can be called on, computed once.
ItemsOf ==
    [sc \in SceneIds \cup HitSceneIds |->
        [sub \in {""} \cup NestedIds(sc) |-> Items(SubtreeOf(sc, sub).children)]]

WalkItems(wk) == ItemsOf[wk.scene][wk.sub]

\* The URLs with an entry in the image cache.
Cached == {u \in Urls : imageCache[u] # 0}

\* RunSync for every subtree, position, outcome of native calls and cache
\* content, computed once.
SyncRuns ==
    [sc \in SceneIds \cup HitSceneIds |->
        [sub \in {""} \cup NestedIds(sc) |->
            [pos \in 1 .. Len(ItemsOf[sc][sub]) + 1 |->
                [thr \in BOOLEAN |->
                    [cached \in SUBSET Urls |->
                        RunSync(ItemsOf[sc][sub], pos, thr, cached)]]]]]

\* renderContainer of walk wk runs from its position to its next suspension.
WalkRun(wk, thr) == SyncRuns[wk.scene][wk.sub][wk.pos][thr][Cached]

\* loadImage(url) called by walk w: a new Image element whose src is set.
\* Its cache check cannot succeed: renderSprite has just missed the cache.
loadImage(lds, url, w) ==
    Append(lds, [url |-> url, status |-> "pending", walk |-> w, rel |-> 0])

\* The state after walk w (ws[w] before the run) made the synchronous run r
\* on a surface holding baseLog.
Painted(ws, w, baseLog, r) ==
    /\ walks' = [ws EXCEPT ![w] =
                    [@ EXCEPT !.pos = r.pos,
                              !.status = r.status,
                              !.load = IF r.start # NoUrl THEN Len(loads) + 1 ELSE 0,
                              !.drawn = @ \o r.drawn,
                              !.failed = @ \cup r.failed]]
    /\ loads' = IF r.start # NoUrl THEN loadImage(loads, r.start, w) ELSE loads
    /\ log' = baseLog \o r.ops
    /\ pathsOpen' = pathsOpen + r.paths
    /\ paintsOpen' = paintsOpen + r.paints

\* No pointer event yet; no Graphics under study.
NoEvent == [type |-> "none"]

NoGeom == [stage |-> "none"]

\* The renderer as main.ts constructs it: no container is passed.
RendererInit ==
    /\ container = "none"
    /\ imageCache = [u \in Urls |-> 0]
    /\ log = <<>>
    /\ walks = <<>>
    /\ loads = <<>>
    /\ exp = [status |-> "idle", scene |-> "none", pos |-> 1, doc |-> <<>>,
              failed |-> {}, sub |-> 0]
    /\ pathsOpen = 0
    /\ paintsOpen = 0
    /\ paintRel = 0
    /\ surfRel = 0
    /\ flushCount = 0
    /\ nRenders = 0
    /\ nExports = 0
    /\ nDispose = 0

Init ==
    /\ RendererInit
    /\ lastEvent = NoEvent
    /\ geom = NoGeom

(***************************************************************************)
(* render(container): remember the root, clear the surface, run            *)
(* renderContainer up to its first suspension; the flush is left to the    *)
(* promise's then-callback.  The caller makes no new call on a renderer it *)
(* has disposed; work already in flight goes on after dispose().           *)
(***************************************************************************)
Render(sc) ==
    /\ ~disposed
    /\ nRenders < MaxRenders
    /\ nCalls < MaxCalls
    /\ nRenders' = nRenders + 1
    /\ container' = sc
    /\ LET w  == Len(walks) + 1
           wk == Walk("render", sc, "")
       IN  \E r \in {WalkRun(wk, FALSE)} :
               Painted(Append(walks, wk), w, <<>>, r)
    /\ UNCHANGED << lastEvent, geom >>
    /\ UNCHANGED << imageCache, exp, paintRel, surfRel, flushCount, nExports,
                    nDispose >>

\* The sprite a suspended walk waits on.
SpriteAt(wk) == WalkItems(wk)[wk.pos].node

\* The continuation of renderSprite once loadImage has settled: on success
\* the image is stored in the cache again and the sprite is drawn; on
\* failure the catch logs the error.  Either way renderSprite returns.
resumeSprite(wk, thr) ==
    IF wk.status = "loaded"
    THEN LET e == drawSprite(SpriteAt(wk), thr)
         IN  Run(wk.pos + 1, "ready", e, DrawnOf(e.ops),
                 IF thr THEN {SpriteAt(wk).id} ELSE {}, NoUrl)
    ELSE Run(wk.pos + 1, "ready", NoEffect, <<>>, {SpriteAt(wk).id}, NoUrl)

\* A queued continuation of walk w runs: renderContainer's loop goes on, or
\* renderSprite resumes after its load.
WalkStep(w, thr) ==
    /\ w \in DOMAIN walks
    /\ walks[w].status \in {"ready", "loaded", "failedLoad"}
    /\ LET wk == walks[w]
       IN  IF wk.status = "ready"
           THEN /\ \E r \in {WalkRun(wk, thr)} :
                       Painted(walks, w, log, r)
                /\ UNCHANGED imageCache
           ELSE /\ \E r \in {resumeSprite(wk, thr)} : Painted(walks, w, log, r)
                /\ imageCache' = IF wk.status = "loaded"
                                 THEN [imageCache EXCEPT ![SpriteAt(wk).url] = wk.load]
                                 ELSE imageCache
    /\ UNCHANGED << lastEvent, geom >>
    /\ UNCHANGED << container, exp, paintRel, surfRel, flushCount, nRenders,
                    nExports, nDispose >>

\* A flush that does not wait for renderContainer's promise.
FlushNotChained(w) ==
    walks[w].kind = "render" /\ walks[w].status \in {"resolved", "awaiting"}

\* render()'s then-callback may run: renderContainer's promise is resolved.
FlushReady(w) == walks[w].kind = "render" /\ walks[w].status = "resolved"

\* this.surface.flush() in render()'s then-callback.
Flush(w, thr) ==
    /\ w \in DOMAIN walks
    /\ FlushReady(w)
    /\ walks' = [walks EXCEPT ![w].status = IF thr THEN "aborted" ELSE "flushed"]
    /\ flushCount' = IF thr THEN flushCount ELSE flushCount + 1
    /\ UNCHANGED << lastEvent, geom >>
    /\ UNCHANGED << container, imageCache, log, loads, exp, pathsOpen,
                    paintsOpen, paintRel, surfRel, nRenders, nExports, nDispose >>

\* img.onload of load l: the image is decoded, stored in the cache and the
\* promise of loadImage resolves with it.
LoadSucceed(l) ==
    /\ l \in DOMAIN loads
    /\ loads[l].status = "pending"
    /\ loads' = [loads EXCEPT ![l].status = "ok"]
    /\ imageCache' = [imageCache EXCEPT ![loads[l].url] = l]
    /\ walks' = [walks EXCEPT ![loads[l].walk].status = "loaded"]
    /\ UNCHANGED << lastEvent, geom >>
    /\ UNCHANGED << container, log, exp, pathsOpen, paintsOpen, paintRel,
                    surfRel, flushCount, nRenders, nExports, nDispose >>

\* A failed load whose rejection no catch of renderSprite takes: it rejects
\* renderContainer's promise.
LoadFailUncaught(l) ==
    /\ l \in DOMAIN loads
    /\ loads[l].status = "pending"
    /\ loads' = [loads EXCEPT ![l].status = "failed"]
    /\ walks' = [walks EXCEPT ![loads[l].walk].status = "aborted"]
    /\ UNCHANGED << lastEvent, geom >>
    /\ UNCHANGED << container, imageCache, log, exp, pathsOpen, paintsOpen,
                    paintRel, surfRel, flushCount, nRenders, nExports, nDispose >>

\* img.onerror of load l, or a decode that yields nothing or throws: the
\* promise of loadImage rejects and nothing is stored.
LoadFail(l) ==
    /\ l \in DOMAIN loads
    /\ loads[l].status = "pending"
    /\ loads' = [loads EXCEPT ![l].status = "failed"]
    /\ walks' = [walks EXCEPT ![loads[l].walk].status = "failedLoad"]
    /\ UNCHANGED << lastEvent, geom >>
    /\ UNCHANGED << container, imageCache, log, exp, pathsOpen, paintsOpen,
                    paintRel, surfRel, flushCount, nRenders, nExports, nDispose >>

\* dispose(): delete every cached image, clear the cache, delete the shared
\* Paint and the surface.
Dispose ==
    /\ nDispose < MaxDispose
    /\ nCalls < MaxCalls
    /\ nDispose' = nDispose + 1
    /\ loads' = [l \in DOMAIN loads |->
                    IF \E u \in Urls : imageCache[u] = l
                    THEN [loads[l] EXCEPT !.rel = @ + 1]
                    ELSE loads[l]]
    /\ imageCache' = [u \in Urls |-> 0]
    /\ paintRel' = paintRel + 1
    /\ surfRel' = surfRel + 1
    /\ UNCHANGED << lastEvent, geom >>
    /\ UNCHANGED << container, log, walks, exp, pathsOpen, paintsOpen,
                    flushCount, nRenders, nExports >>

(***************************************************************************)
(* exportToPDF.  processContainer iterates the children of this.container; *)
(* a nested Container is handed to renderContainer, the raster painter's   *)
(* own walk, and awaited.                                                  *)
(***************************************************************************)
Export(status, scene, r, failed, sub) ==
    [status |-> status, scene |-> scene, pos |-> r.pos, doc |-> r.doc,
     failed |-> failed, sub |-> sub]

\* The state after processContainer made the synchronous run r; ws are the
\* walks before it.
Exported(scene, r, failed, ws, thr) ==
    IF r.status = "inRender"
    THEN LET w  == Len(ws) + 1
             wk == Walk("export", scene, Scene(scene).children[r.pos].id)
         IN  /\ \E rr \in {WalkRun(wk, thr)} :
                    Painted(Append(ws, wk), w, log, rr)
             /\ exp' = Export("inRender", scene, r, failed, w)
    ELSE /\ walks' = ws
         /\ exp' = Export(r.status, scene, r, failed, 0)
         /\ UNCHANGED << loads, log, pathsOpen, paintsOpen >>

\* exportToPDF() is called: a new document, then processContainer runs to
\* its first suspension.  Without a container the call rejects.
ExportStart ==
    /\ ~disposed
    /\ nExports < MaxExports
    /\ nCalls < MaxCalls
    /\ exp.status \in {"idle", "returned", "rejected"}
    /\ nExports' = nExports + 1
    /\ IF container = "none"
       THEN /\ exp' = [exp EXCEPT !.status = "rejected", !.scene = "none",
                                  !.doc = <<>>, !.failed = {}, !.pos = 1]
            /\ UNCHANGED << walks, loads, log, pathsOpen, paintsOpen >>
       ELSE \E r \in {processContainer(Scene(container).children, 1, <<>>)} :
                Exported(container, r, {}, walks, FALSE)
    /\ UNCHANGED << lastEvent, geom >>
    /\ UNCHANGED << container, imageCache, paintRel, surfRel, flushCount,
                    nRenders, nDispose >>

\* A queued continuation of processContainer runs: after addSpriteToPDF
\* returned, or after the awaited renderContainer settled (a rejection
\* leaves exportToPDF through its catch, which rethrows).
ExportStep(thr) ==
    /\ \/ exp.status = "ready"
       \/ exp.status = "inRender" /\ walks[exp.sub].status \in {"resolved", "aborted"}
    /\ IF exp.status = "ready"
       THEN \E r \in {processContainer(Scene(exp.scene).children, exp.pos, exp.doc)} :
                Exported(exp.scene, r, exp.failed, walks, thr)
       ELSE IF walks[exp.sub].status = "resolved"
       THEN \E r \in {processContainer(Scene(exp.scene).children, exp.pos + 1, exp.doc)} :
                Exported(exp.scene, r, exp.failed,
                         [walks EXCEPT ![exp.sub].status = "joined"], thr)
       ELSE /\ exp' = [exp EXCEPT !.status = "rejected"]
            /\ UNCHANGED << walks, loads, log, pathsOpen, paintsOpen >>
    /\ UNCHANGED << lastEvent, geom >>
    /\ UNCHANGED << container, imageCache, paintRel, surfRel, flushCount,
                    nRenders, nExports, nDispose >>

\* addSpriteToPDF: the fetch and the base64 encoding succeeded, the image
\* is added to the document.
ExportFetchOk ==
    /\ exp.status = "fetching"
    /\ exp' = [exp EXCEPT !.status = "ready", !.pos = @ + 1,
                          !.doc = Append(@, Prim("image",
                                     Scene(exp.scene).children[exp.pos].id))]
    /\ UNCHANGED << lastEvent, geom >>
    /\ UNCHANGED << container, imageCache, log, walks, loads, pathsOpen,
                    paintsOpen, paintRel, surfRel, flushCount, nRenders,
                    nExports, nDispose >>

\* addSpriteToPDF: the fetch, the encoding or addImage failed; the catch
\* logs the error and the sprite is left out.
ExportFetchFail ==
    /\ exp.status = "fetching"
    /\ exp' = [exp EXCEPT !.status = "ready", !.pos = @ + 1,
                          !.failed = @ \cup {Scene(exp.scene).children[exp.pos].id}]
    /\ UNCHANGED << lastEvent, geom >>
    /\ UNCHANGED << container, imageCache, log, walks, loads, pathsOpen,
                    paintsOpen, paintRel, surfRel, flushCount, nRenders,
                    nExports, nDispose >>

Next ==
    \/ \E sc \in SceneIds : Render(sc)
    \/ \E w \in DOMAIN walks, thr \in ThrowChoices : WalkStep(w, thr)
    \/ \E w \in DOMAIN walks, thr \in ThrowChoices : Flush(w, thr)
    \/ \E l \in DOMAIN loads : LoadSucceed(l)
    \/ \E l \in DOMAIN loads : LoadFail(l)
    \/ Dispose
    \/ ExportStart
    \/ \E thr \in ThrowChoices : ExportStep(thr)
    \/ ExportFetchOk
    \/ ExportFetchFail

Spec == Init /\ [][Next]_vars

(***************************************************************************)
(* The painter and the exporter of a renderer that is never disposed,      *)
(* with the scheduling JavaScript guarantees: a queued continuation or     *)
(* then-callback eventually runs; and with the proviso of the flush claim: *)
(* every image load eventually succeeds or fails.                          *)
(***************************************************************************)
LiveNext ==
    \/ \E sc \in SceneIds : Render(sc)
    \/ \E w \in DOMAIN walks : WalkStep(w, FALSE)
    \/ \E w \in DOMAIN walks : Flush(w, FALSE)
    \/ \E l \in DOMAIN loads : LoadSucceed(l)
    \/ \E l \in DOMAIN loads : LoadFail(l)
    \/ ExportStart
    \/ ExportStep(FALSE)
    \/ ExportFetchOk
    \/ ExportFetchFail

Fairness ==
    /\ WF_vars(\E w \in DOMAIN walks : WalkStep(w, FALSE))
    /\ WF_vars(\E w \in DOMAIN walks : Flush(w, FALSE))
    /\ WF_vars(\E l \in DOMAIN loads : LoadSucceed(l) \/ LoadFail(l))

FairSpec == Init /\ [][LiveNext]_vars /\ Fairness

(***************************************************************************)
(* The pointerdown and pointerup listeners of setupPointerEvents.  Both    *)
(* copy and reverse this.container.children, walk the copy and emit the    *)
(* event on the first Graphics that hitTest accepts.  Before the first     *)
(* render() this.container is undefined and reading its children throws.   *)
(***************************************************************************)
\* The list the children are tested in, as written without the reversal.
inListOrder(children) == children

\* [...this.container.children].reverse()
reverse(children) ==
    [i \in 1 .. Len(children) |-> children[Len(children) + 1 - i]]

\* The for-loop over the list from its i-th element: the children it
\* visits and the nodes it emits the event on (the loop breaks after the
\* first emit).
RECURSIVE dispatchFrom(_, _, _)
dispatchFrom(list, i, point) ==
    IF i > Len(list) THEN [visited |-> <<>>, emitted |-> <<>>]
    ELSE IF list[i].kind = "graphics" /\ hitTest(point, list[i])
         THEN [visited |-> << list[i].id >>, emitted |-> << list[i].id >>]
         ELSE LET r == dispatchFrom(list, i + 1, point)
              IN  [visited |-> << list[i].id >> \o r.visited, emitted |-> r.emitted]

\* The points tried on the roots for the pointer handlers: over hn, over
\* h1 only, over h1 and h2, over h2 only, over h3, and over nothing.
HitPoints == {[x |-> x, y |-> y] : x \in {1, 5, 7, 9, 13, 15}, y \in {5, 6}}

PointerTypes == {"pointerdown", "pointerup"}

\* One pointerdown or pointerup event at point.
Pointer(type, point) ==
    /\ lastEvent' =
          IF container = "none"
          THEN [type |-> type, point |-> point, root |-> container,
                visited |-> <<>>, emitted |-> <<>>, threw |-> TRUE]
          ELSE LET r == dispatchFrom(reverse(Scene(container).children), 1, point)
               IN  [type |-> type, point |-> point, root |-> container,
                    visited |-> r.visited, emitted |-> r.emitted, threw |-> FALSE]
    /\ UNCHANGED << container, imageCache, log, walks, loads, exp, pathsOpen,
                    paintsOpen, paintRel, surfRel, flushCount, nRenders,
                    nExports, nDispose, geom >>

\* The painter on the roots whose nodes carry their geometry, and the
\* pointer events of the canvas.
PointerNext ==
    \/ \E sc \in HitSceneIds : Render(sc)
    \/ \E w \in DOMAIN walks : WalkStep(w, FALSE)
    \/ \E w \in DOMAIN walks : Flush(w, FALSE)
    \/ \E type \in PointerTypes, point \in HitPoints : Pointer(type, point)

PointerSpec == Init /\ [][PointerNext]_vars

(***************************************************************************)
(* The three consumers applied to one Graphics.  The Graphics is drawn     *)
(* from a bounded family: one graphicsData entry (a Rectangle, a Circle or *)
(* a polyline of one to three points), the node at position (4, 4) with    *)
(* an own scale and a right angle.  From the input, the painter's or the   *)
(* exporter's geometry is computed, or the hit tester is asked for a point.*)
(***************************************************************************)
GeomPositions == {4}

GeomOffsets == {0, 2}

GeomWidths == {2, 4}

GeomHeights == {2}

GeomRadii == {2}

GeomScalesX == {0 - 1, 1, 2}

GeomScalesY == {1, 2}

GeomAngles == {0, 90, 180, 270}

GeomShapes ==
    {GeomData("rect", fill, FALSE, x, 0, w, h, 0, <<>>) :
        fill \in BOOLEAN, x \in GeomOffsets, w \in GeomWidths, h \in GeomHeights}
    \cup {GeomData("circle", TRUE, FALSE, x, 0, 0, 0, r, <<>>) :
            x \in GeomOffsets, r \in GeomRadii}
    \cup {GeomData("poly", FALSE, TRUE, 0, 0, 0, 0, 0, pts) :
            pts \in { << <<0, 0>> >>,
                      << <<0, 0>>, <<4, 0>> >>,
                      << <<0, 0>>, <<4, 0>>, <<4, 2>> >> }}

GeomInputs ==
    {GeomGraphics("g", angle, pos, pos, sx, sy, << d >>) :
        angle \in GeomAngles, pos \in GeomPositions, sx \in GeomScalesX,
        sy \in GeomScalesY, d \in GeomShapes}

\* The points the hit tester is asked about.
Points == {[x |-> x, y |-> y] : x \in (0 - 2) .. 16, y \in 3 .. 9}

GeomInit ==
    /\ RendererInit
    /\ lastEvent = NoEvent
    /\ geom \in {[stage |-> "input", g |-> g] : g \in GeomInputs}

\* renderGraphics computes the geometry of the Graphics.
PaintShape ==
    /\ geom.stage = "input"
    /\ geom' = [stage |-> "painted", g |-> geom.g, out |-> paintGeometry(geom.g)]
    /\ UNCHANGED << container, imageCache, log, walks, loads, exp, pathsOpen,
                    paintsOpen, paintRel, surfRel, flushCount, nRenders,
                    nExports, nDispose, lastEvent >>

\* processContainer computes the geometry of the Graphics.
ExportShape ==
    /\ geom.stage = "input"
    /\ geom' = [stage |-> "exported", g |-> geom.g, out |-> docGeometry(geom.g)]
    /\ UNCHANGED << container, imageCache, log, walks, loads, exp, pathsOpen,
                    paintsOpen, paintRel, surfRel, flushCount, nRenders,
                    nExports, nDispose, lastEvent >>

\* hitTest is asked whether the point lies in the Graphics.
HitShape(point) ==
    /\ geom.stage = "input"
    /\ geom' = [stage |-> "hit", g |-> geom.g, point |-> point,
                out |-> hitTest(point, geom.g)]
    /\ UNCHANGED << container, imageCache, log, walks, loads, exp, pathsOpen,
                    paintsOpen, paintRel, surfRel, flushCount, nRenders,
                    nExports, nDispose, lastEvent >>

GeomNext ==
    \/ PaintShape
    \/ ExportShape
    \/ \E point \in Points : HitShape(point)

GeomSpec == GeomInit /\ [][GeomNext]_vars

(***************************************************************************)
(* Notions the properties share.                                           *)
(***************************************************************************)
Range(f) == {f[i] : i \in DOMAIN f}

LoadsOf(u) == {l \in DOMAIN loads : loads[l].url = u}

\* The nodes one complete walk over items draws, in order, when the sprites
\* in skipped are left out (their load failed) and every other one is drawn.
RECURSIVE WalkDraws(_, _)
WalkDraws(items, skipped) ==
    IF items = <<>> THEN <<>>
    ELSE LET it == Head(items)
         IN  (CASE it.t = "graphics" -> DrawnOf(renderGraphics(it.node, FALSE).ops)
                [] it.t = "sprite" ->
                     IF it.node.url = NoUrl \/ it.node.id \in skipped THEN <<>>
                     ELSE << it.node.id >>
                [] OTHER -> <<>>)
             \o WalkDraws(Tail(items), skipped)

SpritesOf(items) ==
    {items[i].node.id : i \in {j \in DOMAIN items : items[j].t = "sprite"}}

RootItems(sc) == ItemsOf[sc][""]

(***************************************************************************)
(* C1.  While no load of a URL has failed, at most one load is started for *)
(* that URL: a sprite whose URL is already being loaded waits for that     *)
(* load.  (Stated for a renderer that has not been disposed.)              *)
(***************************************************************************)
C1_LoadsCoalesced ==
    \A u \in Urls :
        (~disposed /\ \A l \in LoadsOf(u) : loads[l].status # "failed")
            => Cardinality(LoadsOf(u)) <= 1

(***************************************************************************)
(* C2.  At every surface flush the draw calls on the surface since its     *)
(* last clear are exactly the draw calls of one complete walk of one root, *)
(* in that walk's order.                                                   *)
(***************************************************************************)
IsCompleteWalk(draws) ==
    \E sc \in SceneIds : \E skipped \in SUBSET SpritesOf(RootItems(sc)) :
        draws = WalkDraws(RootItems(sc), skipped)

C2_NoPartialWalkPresented ==
    [][flushCount' = flushCount + 1 => IsCompleteWalk(DrawnOf(log))]_vars

(***************************************************************************)
(* C3.  While a walk waits for a sprite's load, every shape that comes     *)
(* after that sprite in the tree has already been drawn by the walk.       *)
(***************************************************************************)
C3_ShapesDrawnWhileSpriteLoads ==
    \A w \in DOMAIN walks :
        walks[w].status = "awaiting" =>
            LET items == WalkItems(walks[w])
            IN  \A i \in DOMAIN items :
                    (/\ i > walks[w].pos
                     /\ items[i].t = "graphics"
                     /\ DrawnOf(renderGraphics(items[i].node, FALSE).ops) # <<>>)
                        => items[i].node.id \in Range(walks[w].drawn)

(***************************************************************************)
(* C4.  A walk started by render() has flushed only if no load started by  *)
(* it is pending and every sprite of its tree that names an image, at any  *)
(* depth, was drawn or was given up in renderSprite's catch.               *)
(***************************************************************************)
C4_FlushAfterAllSprites ==
    \A w \in DOMAIN walks :
        walks[w].status = "flushed" =>
            /\ \A l \in DOMAIN loads :
                   loads[l].walk = w => loads[l].status # "pending"
            /\ LET items == WalkItems(walks[w])
               IN  \A i \in DOMAIN items :
                       (items[i].t = "sprite" /\ items[i].node.url # NoUrl)
                           => items[i].node.id \in
                                 Range(walks[w].drawn) \cup walks[w].failed

\* A walk over the scene with the nested sprite has flushed, having drawn
\* that sprite after waiting for its load.
C4_Witness ==
    \E w \in DOMAIN walks :
        /\ walks[w].status = "flushed"
        /\ walks[w].scene = "B"
        /\ "s2" \in Range(walks[w].drawn)
        /\ \E l \in DOMAIN loads : loads[l].walk = w /\ loads[l].status = "ok"

(***************************************************************************)
(* C5.  Every render() call flushes the surface exactly once, given that   *)
(* every load eventually succeeds or fails: a walk never flushes twice     *)
(* (the flushes counted are those of distinct walks), and whatever later   *)
(* render() calls do, in the end every walk started by render() has        *)
(* flushed and there are as many flushes as render() calls.                *)
(***************************************************************************)
FlushedWalks == {w \in DOMAIN walks : walks[w].status = "flushed"}

RenderWalks == {w \in DOMAIN walks : walks[w].kind = "render"}

C5_EveryRenderFlushesOnce ==
    /\ [](flushCount = Cardinality(FlushedWalks) /\ flushCount <= nRenders)
    /\ <>[](RenderWalks = FlushedWalks /\ flushCount = nRenders)

\* Two render() calls have both flushed, the first after its load failed
\* while the second was already waiting for its own.
C5_Witness ==
    /\ nRenders = 2
    /\ flushCount = 2
    /\ \E l \in DOMAIN loads : loads[l].status = "failed" /\ loads[l].walk = 1
    /\ \E l \in DOMAIN loads : loads[l].status = "ok" /\ loads[l].walk = 2
    /\ walks[2].kind = "render"

(***************************************************************************)
(* C6.  When the load a walk waits on fails, the image cache holds no      *)
(* entry for that load's URL: at the point where renderSprite's catch is   *)
(* about to skip the sprite, nothing is cached for its source, so that the *)
(* next walk reaching the source starts a new load.                        *)
(***************************************************************************)
C6_FailedLoadLeavesNoEntry ==
    \A w \in DOMAIN walks :
        walks[w].status = "failedLoad"
            => imageCache[SpriteAt(walks[w]).url] = 0

(***************************************************************************)
(* C7.  exportToPDF leaves the raster painter's state alone: no walk made  *)
(* on behalf of an export issues a draw call on the surface, and no entry  *)
(* of the image cache comes from a load started on behalf of an export.    *)
(***************************************************************************)
C7_ExportLeavesPainterAlone ==
    /\ \A w \in DOMAIN walks :
           walks[w].kind = "export" => walks[w].drawn = <<>>
    /\ \A l \in DOMAIN loads : walks[loads[l].walk].kind # "export"

(***************************************************************************)
(* C8.  Once exportToPDF has returned the document, every Graphics node    *)
(* that one complete render walk of the same root draws, at any depth, has *)
(* a primitive in the document.                                            *)
(***************************************************************************)
\* The Graphics nodes a complete render walk of root sc draws.
ShapesDrawn(sc) ==
    {RootItems(sc)[i].node.id :
        i \in {j \in DOMAIN RootItems(sc) :
                  /\ RootItems(sc)[j].t = "graphics"
                  /\ DrawnOf(renderGraphics(RootItems(sc)[j].node, FALSE).ops) # <<>>}}

\* The nodes with a primitive in the document.
Emitted == {exp.doc[i].node : i \in DOMAIN exp.doc}

C8_ExportEmitsEveryShape ==
    exp.status = "returned" => ShapesDrawn(exp.scene) \subseteq Emitted

(***************************************************************************)
(* C9.  When the fetch of a sprite failed during an export that has        *)
(* returned the document, that sprite is not in the document and every     *)
(* other node of the tree that has something to show is: each Graphics a   *)
(* render walk draws and each other sprite that names an image.            *)
(***************************************************************************)
\* The sprites of root sc, at any depth, that name an image.
SpritesWithUrl(sc) ==
    {RootItems(sc)[i].node.id :
        i \in {j \in DOMAIN RootItems(sc) :
                  /\ RootItems(sc)[j].t = "sprite"
                  /\ RootItems(sc)[j].node.url # NoUrl}}

C9_FailedFetchOmitsOnlyThatSprite ==
    (exp.status = "returned" /\ exp.failed # {}) =>
        /\ exp.failed \cap Emitted = {}
        /\ (ShapesDrawn(exp.scene) \cup SpritesWithUrl(exp.scene)) \ exp.failed
               \subseteq Emitted

(***************************************************************************)
(* C10.  Every native handle is released exactly once.  Nothing is ever    *)
(* released twice; once no load is pending and no continuation is queued,  *)
(* no Path and no Paint made during a walk is left undeleted; and once     *)
(* dispose() has been called as well, every decoded image, the shared      *)
(* Paint and the surface have been deleted.                                *)
(***************************************************************************)
Quiescent ==
    /\ \A l \in DOMAIN loads : loads[l].status # "pending"
    /\ \A w \in DOMAIN walks : walks[w].status \in {"flushed", "aborted", "joined"}
    /\ exp.status \in {"idle", "returned", "rejected"}

C10_HandlesReleasedOnce ==
    /\ paintRel <= 1
    /\ surfRel <= 1
    /\ \A l \in DOMAIN loads : loads[l].rel <= 1
    /\ Quiescent => (pathsOpen = 0 /\ paintsOpen = 0)
    /\ (Quiescent /\ disposed) =>
           /\ paintRel = 1
           /\ surfRel = 1
           /\ \A l \in DOMAIN loads : loads[l].status = "ok" => loads[l].rel = 1

(***************************************************************************)
(* C11.  For every pointerdown or pointerup event on a renderer that has a *)
(* root: the handler visits the root's direct children from the last one   *)
(* backwards, down to and including the last child in list order that is a *)
(* Graphics and passes hitTest, and emits the event on that child only;    *)
(* when no child matches it visits them all, emits nothing and does not    *)
(* throw.                                                                  *)
(***************************************************************************)
HitIndices(children, point) ==
    {i \in DOMAIN children :
        children[i].kind = "graphics" /\ hitTest(point, children[i])}

Min2(m, n) == IF m <= n THEN m ELSE n

Max2(m, n) == IF m >= n THEN m ELSE n

\* The region a rectangle given by a corner and signed sizes covers.
Region(x, y, width, height) ==
    [left |-> Min2(x, x + width), right |-> Max2(x, x + width),
     top |-> Min2(y, y + height), bottom |-> Max2(y, y + height)]

GeomStaged(stage, shape) ==
    /\ geom.stage = stage
    /\ geom.g.data[1].shape = shape

(***************************************************************************)
(* C12.  For a lone filled Rectangle without an angle, with any offset and  *)
(* any own scale: hitTest accepts every point strictly inside the          *)
(* rectangle's local bounds scaled by the node's scale, and rejects every  *)
(* point strictly outside them.                                            *)
(***************************************************************************)
C12_RectangleHitMatchesScaledBounds ==
    (GeomStaged("hit", "rect") /\ geom.g.angle = 0 /\ geom.g.data[1].fill) =>
        LET g == geom.g
            d == g.data[1]
            r == Region(g.px + d.x * g.sx, g.py + d.y * g.sy,
                        d.width * g.sx, d.height * g.sy)
            inside  == /\ r.left < geom.point.x /\ geom.point.x < r.right
                       /\ r.top < geom.point.y /\ geom.point.y < r.bottom
            outside == \/ geom.point.x < r.left \/ geom.point.x > r.right
                       \/ geom.point.y < r.top \/ geom.point.y > r.bottom
        IN  /\ inside => geom.out
            /\ outside => ~geom.out

(***************************************************************************)
(* C13.  A shape with neither a fill nor a stroke is a no-op for all three  *)
(* consumers: the painter issues no draw call for it, the exporter emits    *)
(* no primitive for it, and no pointer event is emitted on it.              *)
(***************************************************************************)
\* A Graphics none of whose graphicsData entries has a visible fill or a
\* visible stroke.
Blank(node) ==
    /\ node.kind = "graphics"
    /\ \A i \in DOMAIN node.data : ~node.data[i].fill /\ ~node.data[i].stroke

C13_BlankShapeIsNoOp ==
    (lastEvent.type \in PointerTypes /\ lastEvent.root # "none") =>
        LET ch == Scene(lastEvent.root).children
        IN  \A i \in DOMAIN ch :
               Blank(ch[i]) =>
                  /\ DrawnOf(renderGraphics(ch[i], FALSE).ops) = <<>>
                  /\ \A k \in DOMAIN log : IsDraw(log[k]) => log[k].node # ch[i].id
                  /\ exportGraphics(ch[i]) = <<>>
                  /\ docGeometry(ch[i]) = <<>>
                  /\ \A k \in DOMAIN lastEvent.emitted : lastEvent.emitted[k] # ch[i].id

\* The painter has walked root H past h3 to the nested rectangle hn, and a
\* pointer event at a point strictly inside h3's rectangle found no node.
C13_Witness ==
    /\ lastEvent.type = "pointerdown"
    /\ lastEvent.root = "H"
    /\ lastEvent.point = [x |-> 13, y |-> 5]
    /\ Blank(HitBlank)
    /\ lastEvent.emitted = <<>>
    /\ \E k \in DOMAIN log : IsDraw(log[k]) /\ log[k].node = "hn"

(***************************************************************************)
(* C14.  For a filled Rectangle without an angle, the painter and the      *)
(* exporter both put the corner at translation + local offset scaled by    *)
(* the composed scale, with width w * sx and height h * sy.                *)
(***************************************************************************)
C14_RectangleCornerAndSize ==
    ((GeomStaged("painted", "rect") \/ GeomStaged("exported", "rect"))
        /\ geom.g.angle = 0 /\ geom.g.data[1].fill) =>
        LET g == geom.g
            d == g.data[1]
        IN  geom.out = << Drawing("rect", g.id, g.px + d.x * g.sx, g.py + d.y * g.sy,
                                  d.width * g.sx, d.height * g.sy, 0, <<>>, NoRot) >>

(***************************************************************************)
(* C15.  For every filled Circle, with any angle and any composed scale     *)
(* (sy different from sx, sx negative): the painter and the exporter each   *)
(* compute one circle with centre = translation + local offset, not         *)
(* scaled, and radius = r * |sx|.                                           *)
(***************************************************************************)
C15_CircleSameInBothBackends ==
    (GeomStaged("painted", "circle") \/ GeomStaged("exported", "circle")) =>
        LET g == geom.g
            d == g.data[1]
        IN  /\ Len(geom.out) = 1
            /\ geom.out[1].prim = "circle"
            /\ geom.out[1].x = g.px + d.x
            /\ geom.out[1].y = g.py + d.y
            /\ geom.out[1].radius = d.radius * (IF g.sx < 0 THEN 0 - g.sx ELSE g.sx)

(***************************************************************************)
(* C16.  For a filled Rectangle with a right angle and width different     *)
(* from height, the rectangle the exporter emits covers the region of the  *)
(* rectangle taken without the angle (corner translation + local offset,   *)
(* sizes scaled by the node's scale) with its four corners turned by the   *)
(* angle about its centre.                                                 *)
(***************************************************************************)
\* The region of a rectangle (corner, signed sizes) turned by a right angle
\* about its centre.
TurnedRegion(x, y, width, height, angle) ==
    LET cx == x + width \div 2
        cy == y + height \div 2
        p  == rotated(x, y, cx, cy, angle)
        q  == rotated(x + width, y + height, cx, cy, angle)
    IN  Region(p.x, p.y, q.x - p.x, q.y - p.y)

C16_RotatedRectangleSameRegion ==
    (GeomStaged("exported", "rect") /\ geom.g.angle # 0 /\ geom.g.data[1].fill
        /\ geom.g.data[1].width # geom.g.data[1].height
        /\ Abs(geom.g.data[1].width * geom.g.sx)
              # Abs(geom.g.data[1].height * geom.g.sy)) =>
        LET g == geom.g
            d == g.data[1]
        IN  /\ Len(geom.out) = 1
            /\ Region(geom.out[1].x, geom.out[1].y, geom.out[1].width,
                      geom.out[1].height)
                 = TurnedRegion(g.px + d.x, g.py + d.y, d.width * g.sx,
                                d.height * g.sy, g.angle)

(***************************************************************************)
(* C17.  Until dispose() is called the image cache is append-only: once a   *)
(* URL has a cached image, no step replaces it with a different image.      *)
(***************************************************************************)
C17_CacheAppendOnly ==
    [][(nDispose = 0 /\ nDispose' = 0) =>
          \A u \in Urls : imageCache[u] # 0 => imageCache'[u] = imageCache[u]]_vars

(***************************************************************************)
(* C18.  The painter's save and restore calls are balanced per node: at     *)
(* every point of the canvas calls a node has been restored no more often   *)
(* than it has been saved, so no restore comes without an earlier save of   *)
(* that node, and after the node's last call the two counts are equal.      *)
(***************************************************************************)
\* How many of the first n canvas calls are the call op of node.
CallsOf(op, node, n) ==
    Cardinality({k \in 1 .. n : log[k].op = op /\ log[k].node = node})

C18_SaveRestoreBalanced ==
    \A n \in DOMAIN log :
        /\ CallsOf("restore", log[n].node, n) <= CallsOf("save", log[n].node, n)
        /\ (n = Len(log) \/ log[n + 1].node # log[n].node) =>
               CallsOf("restore", log[n].node, n) = CallsOf("save", log[n].node, n)

(***************************************************************************)
(* C19.  Within one painter walk the draw calls come in depth-first         *)
(* pre-order of the tree: of any two nodes the walk has drawn, the one      *)
(* earlier in pre-order was drawn first, whatever the order in which the    *)
(* image loads complete.                                                    *)
(***************************************************************************)
\* The ids of the nodes below children in depth-first pre-order.
RECURSIVE PreOrderIds(_)
PreOrderIds(children) ==
    IF children = <<>> THEN <<>>
    ELSE << Head(children).id >> \o PreOrderIds(Head(children).children)
         \o PreOrderIds(Tail(children))

\* The place of a node in a pre-order list.
PlaceOf(id, pre) == CHOOSE k \in DOMAIN pre : pre[k] = id

C19_DrawsInPreOrder ==
    \A w \in DOMAIN walks :
        LET pre == PreOrderIds(SubtreeOf(walks[w].scene, walks[w].sub).children)
            d   == walks[w].drawn
        IN  /\ \A i \in DOMAIN d : d[i] \in Range(pre)
            /\ \A i, j \in DOMAIN d :
                   i < j => PlaceOf(d[i], pre) <= PlaceOf(d[j], pre)

\* Two walks over root A have each drawn the rectangle, the sprite and the
\* nested circle, and the first walk's image arrived after the second's:
\* the cache holds the image of the first walk's load although a load of
\* the second walk has succeeded.
C19_Witness ==
    /\ Len(walks) >= 2
    /\ walks[1].scene = "A" /\ walks[1].drawn = << "r1", "s1", "c1" >>
    /\ walks[2].scene = "A" /\ walks[2].drawn = << "r1", "s1", "c1" >>
    /\ \E l, m \in DOMAIN loads :
           /\ loads[l].walk = 1 /\ loads[m].walk = 2
           /\ loads[m].status = "ok"
           /\ imageCache["u1"] = l

(***************************************************************************)
(* C20.  For a stroked polyline of k >= 2 points without an angle, the     *)
(* exporter emits the k - 1 segments between consecutive translated points *)
(* that the painter strokes.                                               *)
(***************************************************************************)
\* The segments between the consecutive points of the polylines drawn.
Segments(draws) ==
    UNION {{ << draws[n].points[i], draws[n].points[i + 1] >> :
               i \in 1 .. (Len(draws[n].points) - 1) } :
           n \in {m \in DOMAIN draws : draws[m].prim = "polyline"}}

C20_PolylineSegmentsInDocument ==
    (GeomStaged("exported", "poly") /\ geom.g.angle = 0
        /\ geom.g.data[1].npts >= 2) =>
        /\ Segments(geom.out) = Segments(paintGeometry(geom.g))
        /\ Cardinality(Segments(geom.out)) = geom.g.data[1].npts - 1

====
